---- MODULE Spec2Model ----
(***************************************************************************)
(* libscca: the file object (libscca_file.c) and the section decoders of   *)
(* the IO handle (libscca_io_handle.c).                                    *)
(*                                                                         *)
(* A call of libscca_file_open / libscca_file_open_file_io_handle is       *)
(* modelled as a sequence of steps, one per decoder that                   *)
(* libscca_file_open_read invokes, so that libscca_file_signal_abort (the  *)
(* one function meant to be called while another call is in progress) can  *)
(* interleave with it.  Every other call is one action.                    *)
(*                                                                         *)
(* 32-bit values are naturals below 2^31; the inputs are chosen inside     *)
(* that range.                                                             *)
(***************************************************************************)
EXTENDS Integers, Sequences, FiniteSets, TLC

VARIABLES
    io_handle,                          \* libscca_io_handle_t: format_version, file_size, abort
    prefetch_hash,                      \* internal_file->prefetch_hash
    file_information,                   \* internal_file->file_information (NULL or the decoded block)
    filename_strings,                   \* internal_file->filename_strings (NULL or the strings value)
    volumes_array,                      \* internal_file->volumes_array (sequence of volume information)
    file_io_handle,                     \* internal_file->file_io_handle (NULL or "bfio")
    file_io_handle_created_in_library,  \* internal_file->file_io_handle_created_in_library
    file_io_handle_opened_in_library,   \* internal_file->file_io_handle_opened_in_library
    bfio,                               \* the byte source last handed to open: bytes, open/closed, freed
    pc,                                 \* position of the open call in progress, "idle" when none is
    call,                               \* locals of the open call in progress
    result,                             \* outcome of the last call that returned
    warnings,                           \* what the decoders recorded on the file besides the decoded values
    accesses,                           \* byte ranges <<first, end>> the last open of the file read from the volumes information buffer
    malloc_zero_is_null,                \* whether memory_allocate( 0 ) returns NULL on this platform
    libcnotify_verbose,                 \* whether the build has debug output and it is set verbose
    invoked,                            \* the decoders the last open has called, in order, with the offset each was given
    subject,                            \* the bytes whose opens are compared (NULL when none are)
    visited,                            \* the entries of the trace chain array that the last open walked: the offset of each in the array data, in order
    first_parse                         \* what the first successful open of the subject left on the file (NULL before it)

vars == << io_handle, prefetch_hash, file_information, filename_strings,
           volumes_array, file_io_handle, file_io_handle_created_in_library,
           file_io_handle_opened_in_library, bfio, pc, call, result,
           warnings, accesses, malloc_zero_is_null, libcnotify_verbose, invoked,
           subject, first_parse, visited >>

\* a pointer is NULL or the one-element sequence that holds the object it points to
NULL == << >>
Ptr(object) == << object >>
Deref(pointer) == pointer[1]

NoError == "none"

(***************************************************************************)
(* Bounds of the model.                                                    *)
(***************************************************************************)
MaxVolumes == 2      \* largest number_of_volumes among the inputs
MaxIndex == 2        \* largest index passed to an indexed accessor
MaxStringSize == 3   \* largest size of the string passed to a filename accessor

(***************************************************************************)
(* Sizes of the on-disk structures.                                        *)
(***************************************************************************)
SizeofFileHeader == 84
FileInformationOffset == 84
SizeofFileInformationV17 == 156
SizeofFileInformationV23 == 224
SizeofMetricsArrayEntryV17 == 20
SizeofMetricsArrayEntryV23 == 32
SizeofTraceChainArrayEntry == 12
SizeofVolumeInformationV17 == 104
SizeofVolumeInformationV23 == 96
\* the fields of a volume information record that the decoder reads are its first 36 bytes
VolumeInformationFieldsSize == 36
FileReferencesHeaderSize == 8

Min(a, b) == IF a <= b THEN a ELSE b

\* const char *scca_file_signature = "SCCA"
scca_file_signature == << 83, 67, 67, 65 >>

\* byte_stream_copy_to_uint32_little_endian
byte_stream_copy_to_uint32_big_endian(b) ==
    b[4] + 256 * b[3] + 65536 * b[2] + 16777216 * b[1]

byte_stream_copy_to_uint32_little_endian(b) ==
    b[1] + 256 * b[2] + 65536 * b[3] + 16777216 * b[4]

\* the 4 bytes that are the little-endian image of a value below 2^31
Bytes32(n) ==
    << n % 256, (n \div 256) % 256, (n \div 65536) % 256, (n \div 16777216) % 256 >>

(***************************************************************************)
(* The byte source (libbfio handle): an external collaborator.  A read of  *)
(* n bytes at an offset returns the bytes that exist there, fewer than n   *)
(* when the source ends before offset + n.                                 *)
(***************************************************************************)
libbfio_handle_read_buffer(data, offset, n) ==
    IF offset >= data.size THEN 0 ELSE Min(n, data.size - offset)

(***************************************************************************)
(* The inputs: the bytes of a byte source, described by the values found   *)
(* at the places the decoders read.  The header fields are kept as bytes;  *)
(* "strings" is what the bytes of a strings array hold (a sequence of      *)
(* strings, or "malformed" when they are not a valid UTF-16 strings        *)
(* array).                                                                 *)
(***************************************************************************)
FormatVersions == { 17, 23, 26 }

SizeofFileInformation(version) ==
    IF version = 17 THEN SizeofFileInformationV17 ELSE SizeofFileInformationV23

\* variant: the record size of version 23 whatever the version is
sizeof_volume_information_v23_always(version) == SizeofVolumeInformationV23

SizeofVolumeInformation(version) ==
    IF version = 17 THEN SizeofVolumeInformationV17 ELSE SizeofVolumeInformationV23

\* end of the file information block of a well-formed file
EndOfFileInformation(version) ==
    FileInformationOffset + SizeofFileInformation(version)

EmptyFileInformation ==
    [ metrics_array_offset                |-> 0,
      number_of_metrics_entries           |-> 0,
      trace_chain_array_offset            |-> 0,
      number_of_trace_chain_array_entries |-> 0,
      filename_strings_offset             |-> 0,
      filename_strings_size               |-> 0,
      volumes_information_offset          |-> 0,
      number_of_volumes                   |-> 0,
      volumes_information_size            |-> 0 ]

\* what the bytes of a strings array hold: the strings, each given by its
\* number of characters (the characters are ASCII), or no valid array
Strings(entries) == [ valid |-> TRUE, entries |-> entries ]
Malformed == [ valid |-> FALSE, entries |-> << >> ]

VolumeRecord(dpo, dpn, ct, sn, fro, frs, nfr, dso, nds, strings) ==
    [ device_path_offset               |-> dpo,
      device_path_number_of_characters |-> dpn,
      creation_time                    |-> ct,
      serial_number                    |-> sn,
      file_references_offset           |-> fro,
      file_references_size             |-> frs,
      number_of_file_references        |-> nfr,
      directory_strings_array_offset   |-> dso,
      number_of_directory_strings      |-> nds,
      strings                          |-> strings ]

\* a record without device path, file references and directory strings
PlainVolumeRecord == VolumeRecord(0, 0, 7, 9, 0, 0, 0, 0, 0, Strings(<< >>))

\* records whose inner data lies in the 36 bytes that follow the records:
\* the file references (header, 8 ignored bytes, 1 reference), a device path
\* of 2 characters and the directory strings up to the end of the block
InnerVolumeRecord(base) ==
    VolumeRecord(base + 24, 2, 8, 10, base, 24, 2, base + 28, 1, Strings(<< 1 >>))

\* the same record with a directory strings array of 2 strings
MiscountedVolumeRecord(base) ==
    VolumeRecord(base + 24, 2, 8, 10, base, 24, 2, base + 28, 1, Strings(<< 1, 2 >>))

\* a device path that ends 2 bytes after the block
DevicePathOutsideRecord(base) ==
    VolumeRecord(base + 34, 2, 8, 10, 0, 0, 0, 0, 0, Strings(<< >>))

\* a file references header that starts 4 bytes before the end of the block
FileReferencesOutsideRecord(base) ==
    VolumeRecord(0, 0, 8, 10, base + 32, 24, 2, 0, 0, Strings(<< >>))

\* directory strings that are not a valid strings array
MalformedStringsRecord(base) ==
    VolumeRecord(0, 0, 8, 10, 0, 0, 0, base + 28, 1, Malformed)

\* a device path of 2^31 + 2 characters: 32-bit values from 2^31 on are held
\* as the negative integer of the same 32 bits
WrappedDevicePathRecord(base) ==
    VolumeRecord(base + 24, (2 - 2147483647) - 1, 8, 10, 0, 0, 0, 0, 0, Strings(<< >>))

VolumeRecords(base) ==
    { PlainVolumeRecord, InnerVolumeRecord(base), MiscountedVolumeRecord(base),
      DevicePathOutsideRecord(base), FileReferencesOutsideRecord(base),
      MalformedStringsRecord(base) }

\* what a read outside the buffer can yield
GarbageVolumeRecords ==
    { PlainVolumeRecord, VolumeRecord(1, 1, 0, 0, 1, 0, 0, 0, 0, Strings(<< >>)) }

\* the records of a block of n volumes: the last one is any record, the
\* first one has its inner data inside the block or has none, the ones in
\* between have none
RECURSIVE VolumeRecordSeqs(_, _, _)
VolumeRecordSeqs(base, n, first) ==
    IF n = 0 THEN { << >> }
    ELSE IF n = 1 THEN { << r >> : r \in VolumeRecords(base) }
    ELSE { << r >> \o s : r \in ( IF first
                                   THEN { PlainVolumeRecord, InnerVolumeRecord(base) }
                                   ELSE { PlainVolumeRecord } ),
                          s \in VolumeRecordSeqs(base, n - 1, FALSE) }

File(size, version, signature, file_size, hash, fi, strings, volumes) ==
    [ size           |-> size,
      format_version |-> version,
      signature      |-> signature,
      file_size      |-> file_size,
      prefetch_hash  |-> hash,
      fi             |-> fi,
      strings        |-> strings,
      volumes        |-> volumes,
      trace_chain    |-> << >> ]

\* next_table_index of the entries of the trace chain array that the file
\* has at trace_chain_array_offset; the entries it does not give are 0
WithTraceChain(data, trace_chain) == [ data EXCEPT !.trace_chain = trace_chain ]

next_table_index_of(data, entry_index) ==
    IF entry_index < Len(data.trace_chain) THEN data.trace_chain[entry_index + 1] ELSE 0

\* files that differ in the header and in the number of bytes they have
HeaderFiles ==
    { File(size, version, signature, Bytes32(240), Bytes32(1),
           EmptyFileInformation, Strings(<< >>), << >>) :
        size      \in { 40, 240, 308 },
        version   \in { Bytes32(17), Bytes32(23), Bytes32(26), Bytes32(30),
                        << 0, 0, 0, 17 >> },
        signature \in { scca_file_signature, << 65, 66, 67, 68 >> } }

\* files that differ in the declared file size
FileSizeFiles ==
    { File(size, Bytes32(version), scca_file_signature, Bytes32(file_size),
           << 239, 190, 173, 94 >>, EmptyFileInformation, Strings(<< >>), << >>) :
        size      \in { 240, 308, 400 },
        version   \in { 17, 23 },
        file_size \in { 170, 240, 308 } }

\* files that differ in the filename strings
StringsFiles ==
    { File(size, Bytes32(23), scca_file_signature, Bytes32(file_size), Bytes32(1),
           [ EmptyFileInformation EXCEPT
               !.filename_strings_offset = strings_offset,
               !.filename_strings_size   = strings_size ],
           strings, << >>) :
        size           \in { 380, 400 },
        file_size      \in { 308, 400 },
        strings_offset \in { 0, 40, 360, 500 },
        strings_size   \in { 0, 40 },
        strings        \in { Strings(<< 1, 2 >>), Malformed } }

\* files that differ in the metrics array and the trace chain array
ArrayFiles ==
    { File(size, Bytes32(version), scca_file_signature, Bytes32(400), Bytes32(1),
           [ EmptyFileInformation EXCEPT
               !.metrics_array_offset                = 320,
               !.number_of_metrics_entries           = number_of_metrics_entries,
               !.trace_chain_array_offset            = trace_chain_array_offset,
               !.number_of_trace_chain_array_entries = 2 ],
           Strings(<< >>), << >>) :
        size                      \in { 330, 344, 400 },
        version                   \in { 17, 23 },
        number_of_metrics_entries \in { 0, 1 },
        trace_chain_array_offset  \in { 0, 320 } }

\* the files of one format version with a volumes information of n records at
\* offset 320: the block with the inner data after the records, the block that
\* ends with the records, the block that ends inside the last record, and the
\* file that ends inside the block
VolumeFilesOf(version, n) ==
    LET records == n * SizeofVolumeInformation(version)
        file(size, block_size, volumes) ==
            File(size, Bytes32(version), scca_file_signature, Bytes32(400), Bytes32(1),
                 [ EmptyFileInformation EXCEPT
                     !.volumes_information_offset = 320,
                     !.number_of_volumes          = n,
                     !.volumes_information_size   = block_size ],
                 Strings(<< >>), volumes)
    IN  { file(320 + records + 36, block_size, volumes) :
            block_size \in { records + 36, records,
                             IF n = 0 THEN 0 ELSE records - 80 },
            volumes    \in VolumeRecordSeqs(records, n, TRUE) }
        \cup { file(320 + records + 16, records + 36,
                    [ i \in 1..n |-> PlainVolumeRecord ]) }

\* the file of the version with the records and 36 bytes of inner data after them
VolumeFile(version, volumes) ==
    File(320 + Len(volumes) * SizeofVolumeInformation(version) + 36,
         Bytes32(version), scca_file_signature, Bytes32(400), Bytes32(1),
         [ EmptyFileInformation EXCEPT
             !.volumes_information_offset = 320,
             !.number_of_volumes          = Len(volumes),
             !.volumes_information_size   =
                 Len(volumes) * SizeofVolumeInformation(version) + 36 ],
         Strings(<< >>), volumes)

\* files that differ in next_table_index of the two entries of the trace chain
\* array: a chain that ends with the terminal 0xffffffff (32-bit values from
\* 2^31 on are held as the negative integer of the same 32 bits), a chain that
\* ends at its first entry, a cycle, and an index outside the array
TraceChainFiles ==
    { WithTraceChain(
          File(400, Bytes32(23), scca_file_signature, Bytes32(400), Bytes32(1),
               [ EmptyFileInformation EXCEPT
                   !.trace_chain_array_offset            = 320,
                   !.number_of_trace_chain_array_entries = 2 ],
               Strings(<< >>), << >>),
          trace_chain) :
        trace_chain \in { << 1, -1 >>, << -1, 0 >>, << 1, 0 >>, << 7, 1 >> } }

\* files that differ in the volumes information
VolumeFiles ==
    UNION { VolumeFilesOf(version, n) : n \in 0..MaxVolumes, version \in { 17, 23 } }
    \cup { File(240, Bytes32(17), scca_file_signature, Bytes32(400), Bytes32(1),
                [ EmptyFileInformation EXCEPT
                    !.number_of_volumes        = 1,
                    !.volumes_information_size = 140 ],
                Strings(<< >>), << PlainVolumeRecord >>) }
    \cup { VolumeFile(26, [ i \in 1..MaxVolumes |-> PlainVolumeRecord ]),
           VolumeFile(23, << WrappedDevicePathRecord(SizeofVolumeInformationV23) >>) }

Files ==
    HeaderFiles \cup FileSizeFiles \cup StringsFiles \cup ArrayFiles \cup TraceChainFiles
    \cup VolumeFiles

(***************************************************************************)
(* The decoders of libscca_io_handle.c.  Each is an operator from the IO   *)
(* handle and the bytes of the source to its outcome, or to the set of     *)
(* its possible outcomes where the code reads outside a buffer.            *)
(***************************************************************************)
Failure(error) == [ result |-> -1, error |-> error ]

\* memory_allocate: NULL for a request of 0 bytes on platforms where malloc( 0 ) is NULL
memory_allocate_fails(size, zero_is_null) == size = 0 /\ zero_is_null

\* libfvalue_value_type_set_data_strings_array: the strings held by a region of
\* data_size bytes, or -1 when the bytes are not a valid strings array
libfvalue_value_type_set_data_strings_array(strings, data_size) ==
    IF data_size = 0 THEN [ result |-> 0, entries |-> << >> ]
    ELSE IF ~ strings.valid THEN [ result |-> -1, entries |-> << >> ]
    ELSE [ result |-> data_size, entries |-> strings.entries ]

\* the header decoder without the comparison of the signature
read_file_header_without_signature(ioh, data, hash, recorded) ==
    IF libbfio_handle_read_buffer(data, 0, SizeofFileHeader) /= SizeofFileHeader
    THEN [ result |-> -1, error |-> "unable to read file header data",
           io_handle |-> ioh, prefetch_hash |-> hash, warnings |-> recorded ]
    ELSE [ result |-> 1, error |-> NoError,
           io_handle |-> [ ioh EXCEPT
               !.format_version = byte_stream_copy_to_uint32_little_endian(data.format_version),
               !.file_size      = byte_stream_copy_to_uint32_little_endian(data.file_size) ],
           prefetch_hash |-> byte_stream_copy_to_uint32_little_endian(data.prefetch_hash),
           warnings |-> recorded ]

\* the header decoder reading the format version in the wrong byte order
read_file_header_big_endian_version(ioh, data, hash, recorded) ==
    IF libbfio_handle_read_buffer(data, 0, SizeofFileHeader) /= SizeofFileHeader
    THEN [ result |-> -1, error |-> "unable to read file header data",
           io_handle |-> ioh, prefetch_hash |-> hash, warnings |-> recorded ]
    ELSE IF data.signature /= scca_file_signature
    THEN [ result |-> -1, error |-> "invalid signature",
           io_handle |-> ioh, prefetch_hash |-> hash, warnings |-> recorded ]
    ELSE [ result |-> 1, error |-> NoError,
           io_handle |-> [ ioh EXCEPT
               !.format_version = byte_stream_copy_to_uint32_big_endian(data.format_version),
               !.file_size      = byte_stream_copy_to_uint32_little_endian(data.file_size) ],
           prefetch_hash |-> byte_stream_copy_to_uint32_little_endian(data.prefetch_hash),
           warnings |-> recorded ]

\* the header decoder treating a file size that differs from the size of the source as an error
read_file_header_size_mismatch_fatal(ioh, data, hash, recorded) ==
    IF libbfio_handle_read_buffer(data, 0, SizeofFileHeader) /= SizeofFileHeader
    THEN [ result |-> -1, error |-> "unable to read file header data",
           io_handle |-> ioh, prefetch_hash |-> hash, warnings |-> recorded ]
    ELSE IF data.signature /= scca_file_signature
    THEN [ result |-> -1, error |-> "invalid signature",
           io_handle |-> ioh, prefetch_hash |-> hash, warnings |-> recorded ]
    ELSE [ result |-> IF byte_stream_copy_to_uint32_little_endian(data.file_size) /= data.size
                      THEN -1 ELSE 1,
           error |-> IF byte_stream_copy_to_uint32_little_endian(data.file_size) /= data.size
                     THEN "file size mismatch" ELSE NoError,
           io_handle |-> [ ioh EXCEPT
               !.format_version = byte_stream_copy_to_uint32_little_endian(data.format_version),
               !.file_size      = byte_stream_copy_to_uint32_little_endian(data.file_size) ],
           prefetch_hash |-> byte_stream_copy_to_uint32_little_endian(data.prefetch_hash),
           warnings |-> recorded ]

\* the header decoder that takes the prefetch hash from the file size field
read_file_header_hash_from_file_size(ioh, data, hash, recorded) ==
    IF libbfio_handle_read_buffer(data, 0, SizeofFileHeader) /= SizeofFileHeader
    THEN [ result |-> -1, error |-> "unable to read file header data",
           io_handle |-> ioh, prefetch_hash |-> hash, warnings |-> recorded ]
    ELSE IF data.signature /= scca_file_signature
    THEN [ result |-> -1, error |-> "invalid signature",
           io_handle |-> ioh, prefetch_hash |-> hash, warnings |-> recorded ]
    ELSE [ result |-> 1, error |-> NoError,
           io_handle |-> [ ioh EXCEPT
               !.format_version = byte_stream_copy_to_uint32_little_endian(data.format_version),
               !.file_size      = byte_stream_copy_to_uint32_little_endian(data.file_size) ],
           prefetch_hash |-> byte_stream_copy_to_uint32_little_endian(data.file_size),
           warnings |-> recorded ]

libscca_io_handle_read_file_header(ioh, data, hash, recorded) ==
    IF libbfio_handle_read_buffer(data, 0, SizeofFileHeader) /= SizeofFileHeader
    THEN [ result |-> -1, error |-> "unable to read file header data",
           io_handle |-> ioh, prefetch_hash |-> hash, warnings |-> recorded ]
    ELSE IF data.signature /= scca_file_signature
    THEN [ result |-> -1, error |-> "invalid signature",
           io_handle |-> ioh, prefetch_hash |-> hash, warnings |-> recorded ]
    ELSE [ result |-> 1, error |-> NoError,
           io_handle |-> [ ioh EXCEPT
               !.format_version = byte_stream_copy_to_uint32_little_endian(data.format_version),
               !.file_size      = byte_stream_copy_to_uint32_little_endian(data.file_size) ],
           prefetch_hash |-> byte_stream_copy_to_uint32_little_endian(data.prefetch_hash),
           \* if( file_size != io_handle->file_size ) { /* TODO */ }: nothing is recorded
           warnings |-> recorded ]

\* libscca_file_information_read (libscca_file_information.c, not part of the
\* sources at hand): selects the layout by format version, reads the block
\* that follows the header and stores the section offsets and counts as read.
\* The offsets are not tested against the header or the file size here: the
\* caller still lists those tests as to be done (TODO check bounds ..., in
\* libscca_file_open_read) and tests the offsets against 0 only.
libscca_file_information_read(ioh, data) ==
    IF ioh.format_version \notin FormatVersions
    THEN [ result |-> -1, error |-> "unsupported format version", file_information |-> NULL ]
    ELSE IF libbfio_handle_read_buffer(data, FileInformationOffset,
                                       SizeofFileInformation(ioh.format_version))
            /= SizeofFileInformation(ioh.format_version)
    THEN [ result |-> -1, error |-> "unable to read file information data",
           file_information |-> NULL ]
    ELSE [ result |-> 1, error |-> NoError, file_information |-> Ptr(data.fi) ]

libscca_io_handle_read_metrics_array(ioh, data, file_offset, number_of_entries, zero_is_null) ==
    IF ioh.format_version \notin FormatVersions
    THEN Failure("unsupported format version")
    ELSE LET entry_data_size == IF ioh.format_version = 17
                                THEN SizeofMetricsArrayEntryV17
                                ELSE SizeofMetricsArrayEntryV23
             read_size == number_of_entries * entry_data_size
         IN  IF memory_allocate_fails(read_size, zero_is_null)
             THEN Failure("unable to create metrics array data")
             ELSE IF libbfio_handle_read_buffer(data, file_offset, read_size) /= read_size
             THEN Failure("unable to read metrics array data")
             ELSE [ result |-> 1, error |-> NoError ]

\* variant: the walk follows next_table_index from entry 0 and ends at the
\* terminal 0xffffffff, at an index outside the array or after number_of_entries
\* entries
RECURSIVE trace_chain_walk_following_links(_, _, _, _)
RECURSIVE trace_chain_walk(_, _, _, _)
trace_chain_walk_following_links(data, number_of_entries, entry_index, entries) ==
    IF entry_index < 0 \/ entry_index >= number_of_entries
       \/ Len(entries) >= number_of_entries
    THEN entries
    ELSE trace_chain_walk_following_links(
             data, number_of_entries, next_table_index_of(data, entry_index),
             Append(entries, entry_index * SizeofTraceChainArrayEntry))

\* the loop over the entries: entry_data starts at the array data and is
\* advanced by 12 after each entry, whose next_table_index is read and used
\* by nothing but the debug output
trace_chain_walk(data, number_of_entries, entry_index, entries) ==
    IF entry_index >= number_of_entries
    THEN entries
    ELSE LET next_table_index == next_table_index_of(data, entry_index)
         IN  trace_chain_walk(data, number_of_entries, entry_index + 1,
                              Append(entries, entry_index * SizeofTraceChainArrayEntry))

libscca_io_handle_read_trace_chain_array(ioh, data, file_offset, number_of_entries, zero_is_null) ==
    LET read_size == number_of_entries * SizeofTraceChainArrayEntry
    IN  IF memory_allocate_fails(read_size, zero_is_null)
        THEN [ result |-> -1, error |-> "unable to create trace chain array data",
               entries |-> << >> ]
        ELSE IF libbfio_handle_read_buffer(data, file_offset, read_size) /= read_size
        THEN [ result |-> -1, error |-> "unable to read trace chain array data",
               entries |-> << >> ]
        ELSE [ result |-> 1, error |-> NoError,
               entries |-> trace_chain_walk(data, number_of_entries, 0, << >>) ]

libscca_io_handle_read_filename_strings(ioh, data, filename_string_offset, filename_string_size, zero_is_null) ==
    IF memory_allocate_fails(filename_string_size, zero_is_null)
    THEN [ result |-> -1, error |-> "unable to create filename strings data",
           filename_strings |-> << >> ]
    ELSE IF libbfio_handle_read_buffer(data, filename_string_offset, filename_string_size)
            /= filename_string_size
    THEN [ result |-> -1, error |-> "unable to read filename strings data",
           filename_strings |-> << >> ]
    ELSE LET value == libfvalue_value_type_set_data_strings_array(
                          data.strings, filename_string_size)
         IN  IF value.result = -1
             THEN [ result |-> -1, error |-> "unable to set data of filename strings value",
                    filename_strings |-> << >> ]
             ELSE [ result |-> 1, error |-> NoError, filename_strings |-> value.entries ]

(***************************************************************************)
(* libscca_io_handle_read_volumes_information.  The volumes information    *)
(* is read into a buffer of volumes_information_size bytes; the code reads *)
(* the records and their inner data at offsets taken from the input.  A    *)
(* read outside the buffer is undefined behaviour: it yields any value, or *)
(* ends the process.                                                       *)
(***************************************************************************)
\* stand-in for the end of the address space: the end of a range whose 32-bit size wrapped around
AddressSpaceEnd == 2147483647

InBuffer(range, buffer_size) == range[1] >= 0 /\ range[2] <= buffer_size

\* the end of the range of size ( a - b ) mod 2^32 that starts at offset
EndOfRemainder(offset, a, b) ==
    IF a >= b THEN offset + (a - b) ELSE AddressSpaceEnd

\* device_path_size *= 2, in the 32 bits of device_path_size: the bit shifted
\* out is lost
device_path_size_in_bytes(number_of_characters) ==
    LET low31 == IF number_of_characters >= 0 THEN number_of_characters
                 ELSE ( number_of_characters + 2147483647 ) + 1
        low30 == low31 % 1073741824
    IN  IF low31 >= 1073741824 THEN ( 2 * low30 - 2147483647 ) - 1 ELSE 2 * low30

\* the range of file reference file_references_index of the file references at the offset
FileReference(file_references_offset, file_references_index) ==
    << file_references_offset + 8 + file_references_index * 8,
       file_references_offset + 8 + file_references_index * 8 + 8 >>

\* the ranges of the buffer that only the debug output of the record reads:
\* the record and the file references as printed data, the 8 bytes after the
\* file references header and the file references from index 1 on
DebugAccesses(record, cursor, record_size) ==
    { << cursor, cursor + record_size >> }
    \cup ( IF record.file_references_offset /= 0
           THEN ( IF record.file_references_size /= 0
                  THEN { << record.file_references_offset,
                            record.file_references_offset + record.file_references_size >> }
                  ELSE { } )
                \cup { FileReference(record.file_references_offset, 0) }
                \cup { FileReference(record.file_references_offset, file_references_index) :
                         file_references_index \in 1..(record.number_of_file_references - 1) }
           ELSE { } )

\* the ranges of the buffer that decoding the record read at the cursor accesses
VolumeAccesses(record, cursor, record_size, buffer_size) ==
    { << cursor, cursor + VolumeInformationFieldsSize >> }
    \cup ( IF libcnotify_verbose THEN DebugAccesses(record, cursor, record_size) ELSE { } )
    \cup ( IF record.file_references_offset /= 0
           THEN { << record.file_references_offset,
                     record.file_references_offset + FileReferencesHeaderSize >> }
           ELSE { } )
    \cup ( IF record.device_path_offset /= 0 /\ record.device_path_number_of_characters /= 0
           THEN { << record.device_path_offset,
                     record.device_path_offset
                       + device_path_size_in_bytes(record.device_path_number_of_characters) >> }
           ELSE { } )
    \cup ( IF record.directory_strings_array_offset /= 0
           THEN { << record.directory_strings_array_offset,
                     EndOfRemainder(record.directory_strings_array_offset,
                                    buffer_size, record.directory_strings_array_offset) >> }
           ELSE { } )

\* the volume information that the record yields, with the outcome of parsing
\* its directory strings (strings: what the parsed bytes hold)
VolumeInformation(record, strings, buffer_size) ==
    LET has_path == record.device_path_offset /= 0
                    /\ record.device_path_number_of_characters /= 0
        parsed   == IF record.directory_strings_array_offset /= 0
                    THEN libfvalue_value_type_set_data_strings_array(
                             strings,
                             IF buffer_size >= record.directory_strings_array_offset
                             THEN buffer_size - record.directory_strings_array_offset
                             ELSE AddressSpaceEnd)
                    ELSE [ result |-> 0, entries |-> << >> ]
    IN  [ result |-> IF parsed.result = -1 THEN -1 ELSE 1,
          volume |->
            [ device_path       |-> IF has_path
                                    THEN Ptr(device_path_size_in_bytes(
                                                 record.device_path_number_of_characters))
                                    ELSE NULL,
              creation_time     |-> record.creation_time,
              serial_number     |-> record.serial_number,
              directory_strings |-> IF record.directory_strings_array_offset /= 0
                                    THEN Ptr(parsed.entries)
                                    ELSE NULL ] ]

\* the possible outcomes of the loop over the volumes from volume_index on
RECURSIVE read_volumes_loop(_, _, _, _, _, _, _)
read_volumes_loop(data, record_size, buffer_size, number_of_volumes, volume_index, volumes, read) ==
    IF volume_index >= number_of_volumes
    THEN { [ result |-> 1, error |-> NoError, volumes |-> volumes, accesses |-> read ] }
    ELSE
      LET cursor  == volume_index * record_size
          inside  == InBuffer(<< cursor, cursor + VolumeInformationFieldsSize >>, buffer_size)
          records == IF inside THEN { data.volumes[volume_index + 1] }
                     ELSE GarbageVolumeRecords
      IN  UNION {
            LET ranges   == VolumeAccesses(record, cursor, record_size, buffer_size)
                outside  == \E range \in ranges : ~ InBuffer(range, buffer_size)
                strings  == IF InBuffer(<< record.directory_strings_array_offset,
                                           EndOfRemainder(record.directory_strings_array_offset,
                                                          buffer_size,
                                                          record.directory_strings_array_offset) >>,
                                        buffer_size)
                            THEN { record.strings }
                            ELSE { Strings(<< >>), Malformed }
            IN  ( IF outside
                  THEN { [ result |-> 0, error |-> "read outside the buffer",
                           volumes |-> volumes, accesses |-> read \cup ranges ] }
                  ELSE { } )
                \cup UNION {
                  LET decoded == VolumeInformation(record, parsed, buffer_size)
                  IN  IF decoded.result = -1
                      THEN { [ result |-> -1,
                               error |-> "unable to set data of directory strings value",
                               volumes |-> volumes, accesses |-> read \cup ranges ] }
                      ELSE read_volumes_loop(data, record_size, buffer_size,
                                             number_of_volumes, volume_index + 1,
                                             Append(volumes, decoded.volume),
                                             read \cup ranges)
                  : parsed \in strings }
            : record \in records }

\* the volumes information decoder without the test of the number of bytes read
read_volumes_information_without_read_count(ioh, data, volumes_information_offset, volumes_information_size, number_of_volumes, volumes, zero_is_null) ==
    IF memory_allocate_fails(volumes_information_size, zero_is_null)
    THEN { [ result |-> -1, error |-> "unable to create volumes information data",
             volumes |-> volumes, accesses |-> { } ] }
    ELSE read_volumes_loop(data, SizeofVolumeInformation(ioh.format_version),
                           volumes_information_size, number_of_volumes, 0, volumes, { })

\* result 1: success, -1: error, 0: the process ended in a read outside the buffer
libscca_io_handle_read_volumes_information(ioh, data, volumes_information_offset, volumes_information_size, number_of_volumes, volumes, zero_is_null) ==
    IF memory_allocate_fails(volumes_information_size, zero_is_null)
    THEN { [ result |-> -1, error |-> "unable to create volumes information data",
             volumes |-> volumes, accesses |-> { } ] }
    ELSE IF libbfio_handle_read_buffer(data, volumes_information_offset,
                                       volumes_information_size)
            /= volumes_information_size
    THEN { [ result |-> -1, error |-> "unable to read volumes information data",
             volumes |-> volumes, accesses |-> { } ] }
    ELSE read_volumes_loop(data, SizeofVolumeInformation(ioh.format_version),
                           volumes_information_size, number_of_volumes, 0, volumes, { })

(***************************************************************************)
(* The file object (libscca_file.c).                                       *)
(***************************************************************************)
LIBSCCA_ACCESS_FLAG_READ == 1
LIBSCCA_ACCESS_FLAG_WRITE == 2
AccessFlags == { 0, LIBSCCA_ACCESS_FLAG_READ, LIBSCCA_ACCESS_FLAG_WRITE,
                 LIBSCCA_ACCESS_FLAG_READ + LIBSCCA_ACCESS_FLAG_WRITE }

HasFlag(access_flags, flag) == (access_flags \div flag) % 2 = 1

\* libscca_io_handle_initialize, libscca_io_handle_clear: memory_set( io_handle, 0, ... )
libscca_io_handle_clear == [ format_version |-> 0, file_size |-> 0, abort |-> 0 ]

NoFile == File(0, << 0, 0, 0, 0 >>, << 0, 0, 0, 0 >>, << 0, 0, 0, 0 >>, << 0, 0, 0, 0 >>,
               EmptyFileInformation, Strings(<< >>), << >>)

\* the outcome of a call: value is the return value once the call has returned
Returned(function, input, value, error, step) ==
    [ function |-> function, input |-> input, returned |-> TRUE,
      value |-> value, error |-> error, step |-> step,
      index |-> 0, output |-> NULL, cause |-> NoError ]

InProgress(function, input) ==
    [ function |-> function, input |-> input, returned |-> FALSE,
      value |-> 0, error |-> NoError, step |-> "none",
      index |-> 0, output |-> NULL, cause |-> NoError ]

\* what the accessors make of a file: format version, prefetch hash,
\* filenames and volumes
Model(ioh, hash, filenames, volumes) ==
    [ format_version   |-> ioh.format_version,
      prefetch_hash    |-> hash,
      filename_strings |-> filenames,
      volumes_array    |-> volumes ]

\* no open call is in progress
NoCall == [ file_io_handle_is_open |-> 0, by_name |-> FALSE ]

\* libscca_file_initialize, on a platform and in a build
Initialized ==
    /\ io_handle = libscca_io_handle_clear
    /\ prefetch_hash = 0
    /\ file_information = NULL
    /\ filename_strings = NULL
    /\ volumes_array = << >>
    /\ file_io_handle = NULL
    /\ file_io_handle_created_in_library = 0
    /\ file_io_handle_opened_in_library = 0
    /\ bfio = [ data |-> NULL, is_open |-> FALSE, freed |-> FALSE, caller_opened |-> FALSE ]
    /\ pc = "idle"
    /\ call = NoCall
    /\ result = Returned("libscca_file_initialize", NoFile, 1, NoError, "none")
    /\ warnings = { }
    /\ accesses = { }
    /\ malloc_zero_is_null \in BOOLEAN
    /\ libcnotify_verbose \in BOOLEAN
    /\ invoked = << >>
    /\ visited = << >>

\* the opens of no file are compared
Init ==
    /\ Initialized
    /\ subject = NULL
    /\ first_parse = NULL

\* the files whose opens are compared: one volume, without inner data or
\* with inner data inside the block, in a block of each of the sizes
SubjectFiles ==
    { data \in VolumeFilesOf(23, 1) :
        data.volumes[1] \in { PlainVolumeRecord,
                              InnerVolumeRecord(SizeofVolumeInformationV23) } }

\* the opens of one of the files are compared
InitSubject ==
    /\ Initialized
    /\ subject \in { Ptr(data) : data \in SubjectFiles }
    /\ first_parse = NULL

\* libscca_file_signal_abort: may be called while an open is in progress
libscca_file_signal_abort ==
    /\ pc \notin { "crashed", "freed" }
    /\ io_handle' = [ io_handle EXCEPT !.abort = 1 ]
    /\ UNCHANGED << prefetch_hash, file_information, filename_strings, volumes_array,
                    file_io_handle, file_io_handle_created_in_library,
                    file_io_handle_opened_in_library, bfio, pc, call, result,
                    warnings, accesses, malloc_zero_is_null, libcnotify_verbose, invoked, subject, first_parse, visited >>

\* variant: the call that is rejected leaves through on_error of
\* libscca_file_open_file_io_handle, which detaches the byte source
rejected_through_on_error(function, input, error) ==
    /\ result' = Returned(function, input, -1, error, "arguments")
    /\ file_io_handle' = NULL
    /\ UNCHANGED << io_handle, prefetch_hash, file_information, filename_strings,
                    volumes_array, file_io_handle_created_in_library,
                    file_io_handle_opened_in_library, bfio, pc, call,
                    warnings, accesses, malloc_zero_is_null, libcnotify_verbose, invoked, subject, first_parse, visited >>

\* a call that returns -1 before it touches the file
Rejected(function, input, error) ==
    /\ result' = Returned(function, input, -1, error, "arguments")
    /\ UNCHANGED << io_handle, prefetch_hash, file_information, filename_strings,
                    volumes_array, file_io_handle, file_io_handle_created_in_library,
                    file_io_handle_opened_in_library, bfio, pc, call,
                    warnings, accesses, malloc_zero_is_null, libcnotify_verbose, invoked, subject, first_parse, visited >>

\* on_error of libscca_file_open_read without the resize of the volumes array
open_read_on_error_without_resize(volumes) ==
    [ filename_strings |-> NULL, file_information |-> NULL, volumes_array |-> volumes ]

\* on_error of libscca_file_open_read: what is left of the partially read file
libscca_file_open_read_on_error(volumes) ==
    [ filename_strings |-> NULL, file_information |-> NULL, volumes_array |-> << >> ]

\* variant: on_error leaves the byte source open and the flag set
open_file_io_handle_on_error_without_close(handle, is_open, opened_in_library, by_name) ==
    [ bfio |-> [ data          |-> NULL,
                 is_open       |-> IF by_name THEN FALSE ELSE handle.is_open,
                 freed         |-> by_name,
                 caller_opened |-> handle.caller_opened ],
      file_io_handle_opened_in_library |-> opened_in_library,
      file_io_handle |-> NULL ]

\* on_error of libscca_file_open_file_io_handle, then of libscca_file_open
libscca_file_open_file_io_handle_on_error(handle, is_open, opened_in_library, by_name) ==
    LET close == is_open = 0 /\ opened_in_library /= 0
    IN  [ bfio |-> [ data    |-> NULL,
                     is_open |-> IF close \/ by_name THEN FALSE ELSE handle.is_open,
                     freed   |-> by_name,
                     caller_opened |-> handle.caller_opened ],
          file_io_handle_opened_in_library |-> IF close THEN 0 ELSE opened_in_library,
          file_io_handle |-> NULL ]

\* the open in progress fails at a step: both on_error handlers run and the call returns -1
OpenFailed(input, step, error, ioh, hash, volumes) ==
    LET read == libscca_file_open_read_on_error(volumes)
        open == libscca_file_open_file_io_handle_on_error(
                    bfio, call.file_io_handle_is_open,
                    file_io_handle_opened_in_library, call.by_name)
    IN  /\ io_handle' = ioh
        /\ prefetch_hash' = hash
        /\ filename_strings' = read.filename_strings
        /\ file_information' = read.file_information
        /\ volumes_array' = read.volumes_array
        /\ bfio' = open.bfio
        /\ file_io_handle_opened_in_library' = open.file_io_handle_opened_in_library
        /\ file_io_handle' = open.file_io_handle
        /\ pc' = "idle"
        /\ result' = Returned(result.function, input, -1, error, step)
        /\ call' = NoCall
        /\ UNCHANGED << file_io_handle_created_in_library, warnings,
                        malloc_zero_is_null, libcnotify_verbose, subject, first_parse, visited >>

\* libscca_file_open_file_io_handle up to the call of libscca_file_open_read, and
\* libscca_file_open_read up to the call of the header decoder.  flags: the
\* access flags the function can be called with; handles: whether the byte
\* source can be open already
OpenFileIoHandle(function, flags, handles, by_name) ==
    \/ /\ file_io_handle /= NULL
       /\ Rejected(function, NoFile, "file IO handle already set")
    \/ /\ file_io_handle = NULL
       /\ \E access_flags \in flags :
            /\ ~ HasFlag(access_flags, LIBSCCA_ACCESS_FLAG_READ)
            /\ ~ HasFlag(access_flags, LIBSCCA_ACCESS_FLAG_WRITE)
            /\ Rejected(function, NoFile, "unsupported access flags")
    \/ /\ file_io_handle = NULL
       /\ \E access_flags \in flags :
            /\ HasFlag(access_flags, LIBSCCA_ACCESS_FLAG_WRITE)
            /\ Rejected(function, NoFile, "write access currently not supported")
    \/ \* libbfio_handle_open fails
       /\ file_io_handle = NULL
       /\ LET open == libscca_file_open_file_io_handle_on_error(
                          [ data |-> NULL, is_open |-> FALSE, freed |-> FALSE,
                            caller_opened |-> FALSE ],
                          0, file_io_handle_opened_in_library, by_name)
          IN  /\ bfio' = open.bfio
              /\ file_io_handle_opened_in_library' = open.file_io_handle_opened_in_library
              /\ file_io_handle' = open.file_io_handle
       /\ call' = NoCall
       /\ result' = Returned(function, NoFile, -1,
                             "unable to open file IO handle", "libbfio_handle_open")
       /\ UNCHANGED << io_handle, prefetch_hash, file_information, filename_strings,
                       volumes_array, file_io_handle_created_in_library, pc,
                       warnings, accesses, malloc_zero_is_null, libcnotify_verbose, invoked, subject, first_parse, visited >>
    \/ \* libscca_file_open_read returns -1 at once
       /\ file_io_handle = NULL
       /\ file_information /= NULL \/ filename_strings /= NULL
       /\ \E handle_is_open \in handles :
            LET opened == IF handle_is_open THEN file_io_handle_opened_in_library ELSE 1
                open   == libscca_file_open_file_io_handle_on_error(
                              [ data |-> NULL, is_open |-> TRUE, freed |-> FALSE,
                                caller_opened |-> handle_is_open ],
                              IF handle_is_open THEN 1 ELSE 0, opened, by_name)
            IN  /\ bfio' = open.bfio
                /\ file_io_handle_opened_in_library' = open.file_io_handle_opened_in_library
                /\ file_io_handle' = open.file_io_handle
                /\ call' = NoCall
       /\ result' = Returned(function, NoFile, -1,
                             "value already set", "libscca_file_open_read")
       /\ UNCHANGED << io_handle, prefetch_hash, file_information, filename_strings,
                       volumes_array, file_io_handle_created_in_library, pc,
                       warnings, accesses, malloc_zero_is_null, libcnotify_verbose, invoked, subject, first_parse, visited >>
    \/ /\ file_io_handle = NULL
       /\ file_information = NULL
       /\ filename_strings = NULL
       /\ \E handle_is_open \in handles :
            /\ call' = [ file_io_handle_is_open |-> IF handle_is_open THEN 1 ELSE 0,
                         by_name |-> by_name ]
            /\ file_io_handle_opened_in_library' =
                   IF handle_is_open THEN file_io_handle_opened_in_library ELSE 1
            /\ bfio' = [ data |-> NULL, is_open |-> TRUE, freed |-> FALSE,
                         caller_opened |-> handle_is_open ]
       /\ result' = InProgress(function, NoFile)
       /\ file_io_handle' = Ptr("bfio")
       /\ io_handle' = [ io_handle EXCEPT !.abort = 0 ]
       /\ pc' = "read_file_header"
       /\ accesses' = { }
       /\ invoked' = << >>
       /\ visited' = << >>
       /\ UNCHANGED << prefetch_hash, file_information, filename_strings, volumes_array,
                       file_io_handle_created_in_library, warnings, malloc_zero_is_null, libcnotify_verbose, subject, first_parse >>

\* libscca_file_open: the library creates the byte source from the filename
libscca_file_open ==
    /\ pc = "idle"
    /\ \/ \E access_flags \in AccessFlags :
            /\ ~ HasFlag(access_flags, LIBSCCA_ACCESS_FLAG_READ)
            /\ ~ HasFlag(access_flags, LIBSCCA_ACCESS_FLAG_WRITE)
            /\ Rejected("libscca_file_open", NoFile, "unsupported access flags")
       \/ \E access_flags \in AccessFlags :
            /\ HasFlag(access_flags, LIBSCCA_ACCESS_FLAG_WRITE)
            /\ Rejected("libscca_file_open", NoFile, "write access currently not supported")
       \/ OpenFileIoHandle("libscca_file_open", { LIBSCCA_ACCESS_FLAG_READ }, { FALSE }, TRUE)

\* libscca_file_open_file_io_handle: the caller supplies the byte source, open or not
libscca_file_open_file_io_handle ==
    /\ pc = "idle"
    /\ OpenFileIoHandle("libscca_file_open_file_io_handle", AccessFlags, BOOLEAN, FALSE)

\* libscca_file_open_file_io_handle after libscca_file_open_read returned 1, then
\* libscca_file_open after libscca_file_open_file_io_handle returned 1
OpenSucceeded(volumes, read) ==
    /\ volumes_array' = volumes
    /\ first_parse' =
           IF subject = Ptr(result.input) /\ first_parse = NULL
           THEN Ptr(Model(io_handle, prefetch_hash, filename_strings, volumes))
           ELSE first_parse
    /\ accesses' = read
    /\ file_io_handle' = Ptr("bfio")
    /\ file_io_handle_created_in_library' =
           IF call.by_name THEN 1 ELSE file_io_handle_created_in_library
    /\ pc' = "idle"
    /\ call' = NoCall
    /\ result' = Returned(result.function, result.input, 1, NoError, "none")

\* the decoder has no section buffer
NoSectionBuffer == [ allocated |-> 0, freed |-> 0 ]

\* the errors that a section decoder sets while its section buffer is NULL: the
\* return before on_error, and memory_allocate that returned NULL
ErrorsBeforeAllocation ==
    { "unsupported format version",
      "unable to create metrics array data",
      "unable to create trace chain array data",
      "unable to create filename strings data",
      "unable to create volumes information data" }

\* variant: on_error frees nothing
on_error_without_memory_free(section_data) == 0

\* on_error of a section decoder: memory_free( section_data ) unless
\* section_data is NULL
on_error_memory_free(section_data) == IF section_data /= NULL THEN 1 ELSE 0

\* what a call of a section decoder did with its section buffer: how many
\* times memory_allocate returned a buffer and how many times memory_free was
\* called on it.  return( 1 ) is after memory_free( section_data ), return( -1 )
\* after on_error, and the process that ended in the decoder freed nothing
SectionBuffer(read) ==
    LET section_data == IF read.result = -1 /\ read.error \in ErrorsBeforeAllocation
                        THEN NULL
                        ELSE Ptr("section data")
    IN  [ allocated |-> IF section_data = NULL THEN 0 ELSE 1,
          freed     |-> IF read.result = 1 THEN 1
                        ELSE IF read.result = -1 THEN on_error_memory_free(section_data)
                        ELSE 0 ]

\* libscca_file_open_read calls a decoder, which is to read at the offset
Invoke(decoder, offset, buffer) ==
    invoked' = Append(invoked, [ decoder |-> decoder, offset |-> offset, buffer |-> buffer ])

\* libscca_io_handle_read_file_header, called by libscca_file_open_read.  The
\* bytes of the source are any of the inputs; they are known to the model from
\* this first read on
read_file_header ==
    /\ pc = "read_file_header"
    /\ Invoke("libscca_io_handle_read_file_header", 0, NoSectionBuffer)
    /\ \E data \in Files :
         LET read == libscca_io_handle_read_file_header(
                         io_handle, data, prefetch_hash, warnings)
         IN  IF read.result /= 1
             THEN /\ OpenFailed(data, "read_file_header", read.error, read.io_handle,
                                read.prefetch_hash, volumes_array)
                  /\ UNCHANGED accesses
             ELSE /\ io_handle' = read.io_handle
                  /\ prefetch_hash' = read.prefetch_hash
                  /\ warnings' = read.warnings
                  /\ bfio' = [ bfio EXCEPT !.data = Ptr(data) ]
                  /\ result' = InProgress(result.function, data)
                  /\ pc' = "file_information"
                  /\ UNCHANGED << file_information, filename_strings, volumes_array,
                                  file_io_handle, file_io_handle_created_in_library,
                                  file_io_handle_opened_in_library, call,
                                  accesses, malloc_zero_is_null, libcnotify_verbose, subject, first_parse, visited >>

\* libscca_file_information_initialize and libscca_file_information_read, then the
\* test of libcnotify_verbose in builds with debug output
read_file_information ==
    /\ pc = "file_information"
    /\ Invoke("libscca_file_information_read", FileInformationOffset, NoSectionBuffer)
    /\ LET read == libscca_file_information_read(io_handle, Deref(bfio.data))
       IN  IF read.result /= 1
           THEN /\ OpenFailed(result.input, "file_information", read.error, io_handle,
                              prefetch_hash, volumes_array)
                /\ UNCHANGED accesses
           ELSE /\ file_information' = read.file_information
                /\ pc' = IF libcnotify_verbose THEN "metrics_array" ELSE "filename_strings"
                /\ UNCHANGED << io_handle, prefetch_hash, filename_strings, volumes_array,
                                file_io_handle, file_io_handle_created_in_library,
                                file_io_handle_opened_in_library, bfio, call, result,
                                warnings, accesses, malloc_zero_is_null, libcnotify_verbose, subject, first_parse, visited >>

\* a step of libscca_file_open_read that decodes a section without storing anything
SectionStep(read, step, next) ==
    IF read.result /= 1
    THEN /\ OpenFailed(result.input, step, read.error, io_handle, prefetch_hash, volumes_array)
         /\ UNCHANGED accesses
    ELSE /\ pc' = next
         /\ UNCHANGED << io_handle, prefetch_hash, file_information, filename_strings,
                         volumes_array, file_io_handle, file_io_handle_created_in_library,
                         file_io_handle_opened_in_library, bfio, call, result,
                         warnings, accesses, malloc_zero_is_null, libcnotify_verbose, subject, first_parse, visited >>

\* the call of a section decoder, made only for a section that is present
InvokeSection(decoder, offset, read) ==
    IF offset /= 0 THEN Invoke(decoder, offset, SectionBuffer(read)) ELSE UNCHANGED invoked

read_metrics_array ==
    /\ pc = "metrics_array"
    /\ LET fi   == Deref(file_information)
           read == IF fi.metrics_array_offset /= 0
                   THEN libscca_io_handle_read_metrics_array(
                            io_handle, Deref(bfio.data), fi.metrics_array_offset,
                            fi.number_of_metrics_entries, malloc_zero_is_null)
                   ELSE [ result |-> 1, error |-> NoError ]
       IN  /\ InvokeSection("libscca_io_handle_read_metrics_array",
                            fi.metrics_array_offset, read)
           /\ SectionStep(read, "metrics_array", "trace_chain_array")

read_trace_chain_array ==
    /\ pc = "trace_chain_array"
    /\ LET fi   == Deref(file_information)
           read == IF fi.trace_chain_array_offset /= 0
                   THEN libscca_io_handle_read_trace_chain_array(
                            io_handle, Deref(bfio.data), fi.trace_chain_array_offset,
                            fi.number_of_trace_chain_array_entries, malloc_zero_is_null)
                   ELSE [ result |-> 1, error |-> NoError, entries |-> << >> ]
       IN  IF read.result /= 1
           THEN /\ InvokeSection("libscca_io_handle_read_trace_chain_array",
                                 fi.trace_chain_array_offset, read)
                /\ OpenFailed(result.input, "trace_chain_array", read.error, io_handle,
                              prefetch_hash, volumes_array)
                /\ UNCHANGED accesses
           ELSE /\ InvokeSection("libscca_io_handle_read_trace_chain_array",
                                 fi.trace_chain_array_offset, read)
                /\ pc' = "filename_strings"
                /\ visited' = read.entries
                /\ UNCHANGED << io_handle, prefetch_hash, file_information, filename_strings,
                                volumes_array, file_io_handle,
                                file_io_handle_created_in_library,
                                file_io_handle_opened_in_library, bfio, call, result,
                                warnings, accesses, malloc_zero_is_null,
                                libcnotify_verbose, subject, first_parse >>

read_filename_strings ==
    /\ pc = "filename_strings"
    /\ LET fi == Deref(file_information)
       IN  IF fi.filename_strings_offset = 0
           THEN /\ UNCHANGED invoked
                /\ SectionStep([ result |-> 1, error |-> NoError ],
                               "filename_strings", "volumes_information")
           ELSE LET read == libscca_io_handle_read_filename_strings(
                                io_handle, Deref(bfio.data), fi.filename_strings_offset,
                                fi.filename_strings_size, malloc_zero_is_null)
                IN  /\ Invoke("libscca_io_handle_read_filename_strings",
                              fi.filename_strings_offset, SectionBuffer(read))
                    /\ IF read.result /= 1
                       THEN /\ OpenFailed(result.input, "filename_strings", read.error, io_handle,
                                          prefetch_hash, volumes_array)
                            /\ UNCHANGED accesses
                       ELSE /\ filename_strings' = Ptr(read.filename_strings)
                            /\ pc' = "volumes_information"
                            /\ UNCHANGED << io_handle, prefetch_hash, file_information,
                                            volumes_array, file_io_handle,
                                            file_io_handle_created_in_library,
                                            file_io_handle_opened_in_library, bfio, call,
                                            result, warnings, accesses, malloc_zero_is_null, libcnotify_verbose, subject, first_parse, visited >>

read_volumes_information ==
    /\ pc = "volumes_information"
    /\ LET fi == Deref(file_information)
       IN  IF fi.volumes_information_offset = 0
           THEN /\ UNCHANGED invoked
                /\ OpenSucceeded(volumes_array, accesses)
                /\ UNCHANGED << io_handle, prefetch_hash, file_information,
                                filename_strings, file_io_handle_opened_in_library,
                                bfio, warnings, malloc_zero_is_null, libcnotify_verbose, subject, visited >>
           ELSE \E read \in libscca_io_handle_read_volumes_information(
                                io_handle, Deref(bfio.data), fi.volumes_information_offset,
                                fi.volumes_information_size, fi.number_of_volumes,
                                volumes_array, malloc_zero_is_null) :
                  /\ Invoke("libscca_io_handle_read_volumes_information",
                            fi.volumes_information_offset, SectionBuffer(read))
                  /\ IF read.result = 1
                     THEN /\ OpenSucceeded(read.volumes, read.accesses)
                          /\ UNCHANGED << io_handle, prefetch_hash, file_information,
                                          filename_strings, file_io_handle_opened_in_library,
                                          bfio, warnings, malloc_zero_is_null, libcnotify_verbose, subject, visited >>
                     ELSE IF read.result = -1
                     THEN /\ OpenFailed(result.input, "volumes_information", read.error, io_handle,
                                        prefetch_hash, read.volumes)
                          /\ accesses' = read.accesses
                     ELSE \* the process ended in the read outside the buffer
                          /\ pc' = "crashed"
                          /\ volumes_array' = read.volumes
                          /\ accesses' = read.accesses
                          /\ UNCHANGED << io_handle, prefetch_hash, file_information,
                                          filename_strings, file_io_handle,
                                          file_io_handle_created_in_library,
                                          file_io_handle_opened_in_library, bfio, call,
                                          result, warnings, malloc_zero_is_null, libcnotify_verbose, subject, first_parse, visited >>

\* variant: the byte source is closed whoever opened it
close_file_io_handle_whoever_opened(handle, opened_in_library, created_in_library) ==
    [ data          |-> NULL,
      is_open       |-> FALSE,
      freed         |-> created_in_library /= 0,
      caller_opened |-> handle.caller_opened ]

\* libscca_file_close on the byte source: libbfio_handle_close if the library
\* opened it, and libbfio_handle_free, which closes it too, if the library
\* created it
libscca_file_close_file_io_handle(handle, opened_in_library, created_in_library) ==
    [ data          |-> NULL,
      is_open       |-> IF opened_in_library /= 0 \/ created_in_library /= 0
                        THEN FALSE ELSE handle.is_open,
      freed         |-> created_in_library /= 0,
      caller_opened |-> handle.caller_opened ]

\* libscca_file_close
libscca_file_close ==
    /\ pc = "idle"
    /\ IF file_io_handle = NULL
       THEN Rejected("libscca_file_close", NoFile, "missing file IO handle")
       ELSE /\ bfio' = libscca_file_close_file_io_handle(
                           bfio, file_io_handle_opened_in_library,
                           file_io_handle_created_in_library)
            /\ file_io_handle_opened_in_library' = 0
            /\ file_io_handle_created_in_library' = 0
            /\ file_io_handle' = NULL
            /\ io_handle' = libscca_io_handle_clear
            /\ prefetch_hash' = 0
            /\ file_information' = NULL
            /\ filename_strings' = NULL
            /\ volumes_array' = << >>
            /\ result' = Returned("libscca_file_close", NoFile, 0, NoError, "none")
            /\ accesses' = { }
            /\ invoked' = << >>
            /\ visited' = << >>
            /\ UNCHANGED << pc, call, warnings, malloc_zero_is_null, libcnotify_verbose, subject, first_parse >>

\* libscca_file_free: libscca_file_close if the file is open, then the volumes
\* array, the IO handle and the file object are freed; no call on the file
\* object follows
libscca_file_free ==
    /\ pc = "idle"
    /\ pc' = "freed"
    /\ IF file_io_handle /= NULL
       THEN /\ bfio' = libscca_file_close_file_io_handle(
                           bfio, file_io_handle_opened_in_library,
                           file_io_handle_created_in_library)
            /\ file_io_handle_opened_in_library' = 0
            /\ file_io_handle_created_in_library' = 0
            /\ file_io_handle' = NULL
            /\ prefetch_hash' = 0
            /\ file_information' = NULL
            /\ filename_strings' = NULL
       ELSE UNCHANGED << bfio, file_io_handle_opened_in_library,
                         file_io_handle_created_in_library, file_io_handle,
                         prefetch_hash, file_information, filename_strings >>
    /\ io_handle' = libscca_io_handle_clear
    /\ volumes_array' = << >>
    /\ result' = Returned("libscca_file_free", NoFile, 1, NoError, "none")
    /\ accesses' = { }
    /\ invoked' = << >>
    /\ visited' = << >>
    /\ UNCHANGED << call, warnings, malloc_zero_is_null, libcnotify_verbose, subject, first_parse >>

(***************************************************************************)
(* The accessors.  output is what the call stored through its out          *)
(* parameter: NULL when it stored nothing.                                 *)
(***************************************************************************)
\* the bytes of the file that is open, if one is
OpenedFile == IF bfio.data /= NULL THEN Deref(bfio.data) ELSE NoFile

\* an accessor returns what it read, or the error it sets on top of the one
\* of the library function that failed: nothing of the file is assigned
Retrieved(function, index, read, error) ==
    /\ result' = [ Returned(function, OpenedFile, read.result,
                            IF read.result = 1 THEN NoError ELSE error, "none")
                     EXCEPT !.index = index, !.output = read.output,
                            !.cause = read.error ]
    /\ UNCHANGED << io_handle, prefetch_hash, file_information, filename_strings,
                    volumes_array, file_io_handle, file_io_handle_created_in_library,
                    file_io_handle_opened_in_library, bfio, pc, call,
                    warnings, accesses, malloc_zero_is_null, libcnotify_verbose, invoked, subject, first_parse, visited >>

NotRetrieved(error) == [ result |-> -1, error |-> error, output |-> NULL ]
Value(value) == [ result |-> 1, error |-> NoError, output |-> Ptr(value) ]

\* libfvalue_value_get_number_of_value_entries
libfvalue_value_get_number_of_value_entries(value) ==
    IF value = NULL THEN NotRetrieved("invalid value")
    ELSE Value(Len(Deref(value)))

\* libfvalue_value_get_utf8_string_size, libfvalue_value_get_utf16_string_size:
\* the size includes the end of string character
libfvalue_value_get_string_size(value, value_entry_index) ==
    IF value = NULL THEN NotRetrieved("invalid value")
    ELSE IF value_entry_index < 0 \/ value_entry_index >= Len(Deref(value))
    THEN NotRetrieved("invalid value entry index")
    ELSE Value(Deref(value)[value_entry_index + 1] + 1)

\* libfvalue_value_copy_to_utf8_string, libfvalue_value_copy_to_utf16_string
libfvalue_value_copy_to_string(value, value_entry_index, string_size) ==
    LET size == libfvalue_value_get_string_size(value, value_entry_index)
    IN  IF size.result /= 1 THEN size
        ELSE IF string_size < Deref(size.output)
        THEN NotRetrieved("string too small")
        ELSE Value(Deref(value)[value_entry_index + 1])

\* variant: the last entry is out of range
get_entry_by_index_without_last_entry(array, entry_index) ==
    IF entry_index < 0 \/ entry_index >= Len(array) - 1
    THEN NotRetrieved("invalid entry index")
    ELSE Value(array[entry_index + 1])

\* libcdata_array_get_entry_by_index
libcdata_array_get_entry_by_index(array, entry_index) ==
    IF entry_index < 0 \/ entry_index >= Len(array)
    THEN NotRetrieved("invalid entry index")
    ELSE Value(array[entry_index + 1])

Indexes == -1 .. MaxIndex
\* the sizes of the caller's string: none, and enough for every string of the inputs
StringSizes == { 0, MaxStringSize }

libscca_file_get_format_version ==
    /\ pc = "idle"
    /\ \E format_version \in { NULL, Ptr(0) } :
         Retrieved("libscca_file_get_format_version", 0,
                   IF format_version = NULL THEN NotRetrieved("invalid format version")
                   ELSE Value(io_handle.format_version),
                   "invalid format version")

libscca_file_get_prefetch_hash ==
    /\ pc = "idle"
    /\ \E hash \in { NULL, Ptr(0) } :
         Retrieved("libscca_file_get_prefetch_hash", 0,
                   IF hash = NULL THEN NotRetrieved("invalid prefetch hash")
                   ELSE Value(prefetch_hash),
                   "invalid prefetch hash")

libscca_file_get_number_of_filenames ==
    /\ pc = "idle"
    /\ LET read == libfvalue_value_get_number_of_value_entries(filename_strings)
       IN  Retrieved("libscca_file_get_number_of_filenames", 0, read,
                       "unable to retrieve number of filename strings")

libscca_file_get_utf8_filename_size ==
    /\ pc = "idle"
    /\ \E filename_index \in Indexes :
         LET read == libfvalue_value_get_string_size(filename_strings, filename_index)
         IN  Retrieved("libscca_file_get_utf8_filename_size", filename_index, read,
                       "unable to retrieve filename UTF-8 string size")

libscca_file_get_utf8_filename ==
    /\ pc = "idle"
    /\ \E filename_index \in Indexes, utf8_string_size \in StringSizes :
         LET read == libfvalue_value_copy_to_string(filename_strings, filename_index,
                                                    utf8_string_size)
         IN  Retrieved("libscca_file_get_utf8_filename", filename_index, read,
                       "unable to copy filename to UTF-8 string")

libscca_file_get_utf16_filename_size ==
    /\ pc = "idle"
    /\ \E filename_index \in Indexes :
         LET read == libfvalue_value_get_string_size(filename_strings, filename_index)
         IN  Retrieved("libscca_file_get_utf16_filename_size", filename_index, read,
                       "unable to retrieve filename UTF-16 string size")

libscca_file_get_utf16_filename ==
    /\ pc = "idle"
    /\ \E filename_index \in Indexes, utf16_string_size \in StringSizes :
         LET read == libfvalue_value_copy_to_string(filename_strings, filename_index,
                                                    utf16_string_size)
         IN  Retrieved("libscca_file_get_utf16_filename", filename_index, read,
                       "unable to copy filename to UTF-16 string")

\* libcdata_array_get_number_of_entries
libscca_file_get_number_of_volumes ==
    /\ pc = "idle"
    /\ Retrieved("libscca_file_get_number_of_volumes", 0, Value(Len(volumes_array)),
                 "unable to retrieve number of volumes")

\* variant: the caller is handed the entry and the array gives it up
get_volume_information_removing_entry ==
    /\ pc = "idle"
    /\ \E volume_index \in Indexes :
         LET read == libcdata_array_get_entry_by_index(volumes_array, volume_index)
         IN  /\ result' = [ Returned("libscca_file_get_volume_information", OpenedFile,
                                     read.result,
                                     IF read.result = 1 THEN NoError
                                     ELSE "unable to retrieve volume information", "none")
                              EXCEPT !.index = volume_index, !.output = read.output,
                                     !.cause = read.error ]
             /\ volumes_array' = IF read.result /= 1 THEN volumes_array
                                 ELSE [ i \in 1..(Len(volumes_array) - 1) |->
                                          IF i <= volume_index THEN volumes_array[i]
                                          ELSE volumes_array[i + 1] ]
             /\ UNCHANGED << io_handle, prefetch_hash, file_information, filename_strings,
                             file_io_handle, file_io_handle_created_in_library,
                             file_io_handle_opened_in_library, bfio, pc, call,
                             warnings, accesses, malloc_zero_is_null, libcnotify_verbose,
                             invoked, subject, first_parse, visited >>

libscca_file_get_volume_information ==
    /\ pc = "idle"
    /\ \E volume_index \in Indexes :
         LET read == libcdata_array_get_entry_by_index(volumes_array, volume_index)
         IN  Retrieved("libscca_file_get_volume_information", volume_index, read,
                       "unable to retrieve volume information")

Accessors ==
    { "libscca_file_get_format_version", "libscca_file_get_prefetch_hash",
      "libscca_file_get_number_of_filenames", "libscca_file_get_utf8_filename_size",
      "libscca_file_get_utf8_filename", "libscca_file_get_utf16_filename_size",
      "libscca_file_get_utf16_filename", "libscca_file_get_number_of_volumes",
      "libscca_file_get_volume_information" }

Next ==
    \/ libscca_file_signal_abort
    \/ libscca_file_open
    \/ libscca_file_open_file_io_handle
    \/ read_file_header
    \/ read_file_information
    \/ read_metrics_array
    \/ read_trace_chain_array
    \/ read_filename_strings
    \/ read_volumes_information
    \/ libscca_file_close
    \/ libscca_file_free
    \/ libscca_file_get_format_version
    \/ libscca_file_get_prefetch_hash
    \/ libscca_file_get_number_of_filenames
    \/ libscca_file_get_utf8_filename_size
    \/ libscca_file_get_utf8_filename
    \/ libscca_file_get_utf16_filename_size
    \/ libscca_file_get_utf16_filename
    \/ libscca_file_get_number_of_volumes
    \/ libscca_file_get_volume_information

Spec == Init /\ [][Next]_vars

\* opens and closes of one file object, any file each time
NextOpenClose ==
    \/ libscca_file_open
    \/ libscca_file_open_file_io_handle
    \/ read_file_header
    \/ read_file_information
    \/ read_metrics_array
    \/ read_trace_chain_array
    \/ read_filename_strings
    \/ read_volumes_information
    \/ libscca_file_close

SpecSubject == InitSubject /\ [][NextOpenClose]_vars

TypeOK ==
    /\ pc \in { "idle", "read_file_header", "file_information", "metrics_array",
                "trace_chain_array", "filename_strings", "volumes_information", "crashed",
                "freed" }
    /\ io_handle.abort \in { 0, 1 }
    /\ file_io_handle_created_in_library \in { 0, 1 }
    /\ file_io_handle_opened_in_library \in { 0, 1 }

(***************************************************************************)
(* Vocabulary of the properties.                                           *)
(***************************************************************************)
OpenFunctions == { "libscca_file_open", "libscca_file_open_file_io_handle" }

DecoderSteps == { "read_file_header", "file_information", "metrics_array",
                  "trace_chain_array", "filename_strings", "volumes_information" }

\* the last call was an open that ran the decoders on result.input and returned
OpenReturned ==
    /\ pc = "idle"
    /\ result.returned
    /\ result.function \in OpenFunctions
    /\ result.step \in DecoderSteps \cup { "none" }

OpenSucceededOn == OpenReturned /\ result.value = 1
OpenFailedOn == OpenReturned /\ result.value = -1

\* nothing of a parsed file is held by the file object
NoModel ==
    /\ file_information = NULL
    /\ filename_strings = NULL
    /\ Len(volumes_array) = 0
    /\ file_io_handle = NULL

\* the header of the input can be read and carries the signature
HeaderReadable(input) == input.size >= SizeofFileHeader
SignatureValid(input) == input.signature = scca_file_signature
VersionOf(input) == byte_stream_copy_to_uint32_little_endian(input.format_version)
FileSizeOf(input) == byte_stream_copy_to_uint32_little_endian(input.file_size)

\* C1: whenever header bytes [4..8] are not "SCCA", reading the file header fails
\* with the invalid signature error, the open fails and no model is produced;
\* no decoder after the header decoder runs on such an input
C1_InvalidSignature ==
    /\ ( OpenReturned /\ HeaderReadable(result.input) /\ ~ SignatureValid(result.input) )
         => ( /\ result.value = -1
              /\ result.error = "invalid signature"
              /\ result.step = "read_file_header"
              /\ NoModel )
    /\ ( pc \in DecoderSteps \ { "read_file_header" } )
         => SignatureValid(Deref(bfio.data))

C1_Witness ==
    /\ OpenFailedOn
    /\ result.input.signature = << 65, 66, 67, 68 >>
    /\ result.error = "invalid signature"

C3_FailedOpenReleasesAll ==
    OpenFailedOn =>
        ( /\ file_information = NULL
          /\ filename_strings = NULL
          /\ Len(volumes_array) = 0
          /\ file_io_handle = NULL )

\* the open failed at the second volume, after the first one had been appended
C3_Witness ==
    /\ OpenFailedOn
    /\ result.step = "volumes_information"
    /\ result.error = "unable to set data of directory strings value"
    /\ result.input.fi.number_of_volumes = 2
    /\ Len(volumes_array) = 0

\* C4: an open does not go on while the abort flag is set: a step of an open that
\* is taken with the flag set (the entry of the open, or a decoder) ends the
\* open with an error
C4_AbortObserved ==
    [][ ( io_handle.abort = 1 /\ pc /= "crashed" /\ pc' /= pc )
          => ( pc' = "idle" /\ result'.value = -1 ) ]_vars

\* the inner offsets of the records of the input that lie in the block
InnerRangesOf(input) ==
    UNION { VolumeAccesses(input.volumes[i],
                           (i - 1) * SizeofVolumeInformation(VersionOf(input)),
                           SizeofVolumeInformation(VersionOf(input)),
                           input.fi.volumes_information_size)
            \ { << (i - 1) * SizeofVolumeInformation(VersionOf(input)),
                   (i - 1) * SizeofVolumeInformation(VersionOf(input))
                     + VolumeInformationFieldsSize >>,
                << (i - 1) * SizeofVolumeInformation(VersionOf(input)),
                   i * SizeofVolumeInformation(VersionOf(input)) >> }
            : i \in { k \in 1..Len(input.volumes) :
                        InBuffer(<< (k - 1) * SizeofVolumeInformation(VersionOf(input)),
                                    (k - 1) * SizeofVolumeInformation(VersionOf(input))
                                      + VolumeInformationFieldsSize >>,
                                 input.fi.volumes_information_size) } }

\* C5: a volumes information in which an inner offset (device path, file
\* references, directory strings) points outside the block is not decoded
\* with success
C5_InnerOffsetsValidated ==
    ( /\ OpenSucceededOn
      /\ result.input.fi.volumes_information_offset /= 0 )
      => \A range \in InnerRangesOf(result.input) :
            InBuffer(range, result.input.fi.volumes_information_size)

\* C6: the decoder of the volumes information reads no byte outside the buffer
\* of volumes_information_size bytes, and the process does not end in such a read
C6_ReadsInsideBuffer ==
    /\ pc /= "crashed"
    /\ ( result.function \in OpenFunctions )
         => \A range \in accesses :
               InBuffer(range, result.input.fi.volumes_information_size)

\* a section offset of the file information is 0 or lies in [84, file_size]
OffsetInFile(offset, file_size) ==
    offset = 0 \/ ( offset >= SizeofFileHeader /\ offset <= file_size )

\* C7: no section is read at an offset outside [84, file_size]: once the file
\* information is decoded, the open goes on only if every non-zero section
\* offset lies in that range
C7_SectionOffsetsChecked ==
    ( pc \in { "metrics_array", "trace_chain_array", "filename_strings",
               "volumes_information" } )
      => LET fi == Deref(file_information)
         IN  /\ OffsetInFile(fi.metrics_array_offset, io_handle.file_size)
             /\ OffsetInFile(fi.trace_chain_array_offset, io_handle.file_size)
             /\ OffsetInFile(fi.filename_strings_offset, io_handle.file_size)
             /\ OffsetInFile(fi.volumes_information_offset, io_handle.file_size)

\* a read of the header, the filename strings or the volumes information of
\* the input returns fewer bytes than requested
ShortRead(input) ==
    \/ ~ HeaderReadable(input)
    \/ /\ input.fi.filename_strings_offset /= 0
       /\ libbfio_handle_read_buffer(input, input.fi.filename_strings_offset,
                                     input.fi.filename_strings_size)
            /= input.fi.filename_strings_size
    \/ /\ input.fi.volumes_information_offset /= 0
       /\ libbfio_handle_read_buffer(input, input.fi.volumes_information_offset,
                                     input.fi.volumes_information_size)
            /= input.fi.volumes_information_size

\* C8: when the source has fewer bytes than requested for the header, the
\* filename strings or the volumes information, the open fails and no model
\* is left
C8_ShortReadFails ==
    ( OpenReturned /\ ShortRead(result.input) )
      => ( result.value = -1 /\ NoModel )

\* the file ends inside the volumes information
C8_Witness ==
    /\ OpenFailedOn
    /\ result.error = "unable to read volumes information data"
    /\ result.input.size > result.input.fi.volumes_information_offset
    /\ NoModel

\* everything but the declared file size is valid: the header, the file
\* information and every section that is present can be read in full from the
\* source and decode without error
ValidBesidesFileSize(input) ==
    /\ HeaderReadable(input)
    /\ SignatureValid(input)
    /\ VersionOf(input) \in FormatVersions
    /\ input.size >= EndOfFileInformation(VersionOf(input))
    /\ input.fi.metrics_array_offset = 0
    /\ input.fi.trace_chain_array_offset = 0
    /\ \/ input.fi.filename_strings_offset = 0
       \/ /\ input.fi.filename_strings_size > 0
          /\ input.fi.filename_strings_offset + input.fi.filename_strings_size <= input.size
          /\ input.strings.valid
    /\ \/ input.fi.volumes_information_offset = 0
       \/ /\ input.fi.volumes_information_size > 0
          /\ input.fi.volumes_information_offset + input.fi.volumes_information_size
               <= input.size
          /\ input.fi.number_of_volumes * SizeofVolumeInformation(VersionOf(input))
               <= input.fi.volumes_information_size
          /\ \A range \in InnerRangesOf(input) :
                InBuffer(range, input.fi.volumes_information_size)
          /\ \A i \in 1..Len(input.volumes) : input.volumes[i].strings.valid

\* C9: the open of an input in which everything but the declared file size is
\* valid succeeds, whether or not the header file size equals the size of the
\* source
C9_SizeMismatchNotFatal ==
    ( OpenReturned /\ ValidBesidesFileSize(result.input) )
      => ( result.value = 1 /\ file_io_handle /= NULL /\ file_information /= NULL )

C9_Witness ==
    /\ OpenSucceededOn
    /\ FileSizeOf(result.input) /= result.input.size
    /\ io_handle.file_size = FileSizeOf(result.input)

\* C10: after the header is decoded, the size_mismatch flag is recorded on the
\* file exactly when the header file size differs from the size of the source
C10_SizeMismatchRecorded ==
    ( /\ OpenReturned
      /\ HeaderReadable(result.input)
      /\ SignatureValid(result.input) )
      => ( ( "size_mismatch" \in warnings )
             <=> ( FileSizeOf(result.input) /= result.input.size ) )

\* the last call was the accessor, made on a file that an open has opened
\* with success; result.input holds the bytes of that file
RetrievedBy(function) ==
    /\ pc = "idle"
    /\ result.function = function
    /\ file_io_handle /= NULL

\* the value of 4 bytes read as a little-endian 32-bit integer
LittleEndian32(b) == b[1] + b[2] * 256 + b[3] * 65536 + b[4] * 16777216

\* C11: after a successful open, libscca_file_get_format_version stores the
\* little-endian value of the format version bytes of the header and
\* libscca_file_get_prefetch_hash the little-endian value of its prefetch
\* hash bytes
C11_HeaderValuesLittleEndian ==
    /\ ( RetrievedBy("libscca_file_get_format_version") /\ result.value = 1 )
         => result.output = Ptr(LittleEndian32(result.input.format_version))
    /\ ( RetrievedBy("libscca_file_get_prefetch_hash") /\ result.value = 1 )
         => result.output = Ptr(LittleEndian32(result.input.prefetch_hash))

\* the prefetch hash 0x5EADBEEF of a version 17 file is retrieved
C11_Witness ==
    /\ RetrievedBy("libscca_file_get_prefetch_hash")
    /\ result.value = 1
    /\ result.input.format_version = << 17, 0, 0, 0 >>
    /\ result.input.prefetch_hash = << 239, 190, 173, 94 >>
    /\ result.output = Ptr(1588444911)
    /\ io_handle.format_version = 17

\* the file has no filename data: no filename strings section, or one of 0 bytes
NoFilenameData(input) ==
    input.fi.filename_strings_offset = 0 \/ input.fi.filename_strings_size = 0

\* C12: on a file opened from bytes without filename data,
\* libscca_file_get_number_of_filenames succeeds and stores 0
C12_NoFilenamesCountZero ==
    ( /\ RetrievedBy("libscca_file_get_number_of_filenames")
      /\ NoFilenameData(result.input) )
      => ( result.value = 1 /\ result.output = Ptr(0) )

\* the decoders that the last open called
Decoders == { invoked[i].decoder : i \in 1..Len(invoked) }

\* C13: when number_of_volumes is 0, the open does not call the decoder of
\* the volumes information (which seeks to volumes_information_offset and
\* reads the block), and libscca_file_get_number_of_volumes stores 0
C13_NoVolumesNoRead ==
    /\ ( OpenReturned /\ result.input.fi.number_of_volumes = 0 )
         => "libscca_io_handle_read_volumes_information" \notin Decoders
    /\ ( /\ RetrievedBy("libscca_file_get_number_of_volumes")
         /\ result.input.fi.number_of_volumes = 0 )
         => result.output = Ptr(0)

\* C14: after a successful open of a file with a volumes information, the
\* volumes array has number_of_volumes entries and entry i carries the
\* creation time and the serial number of record i of the file
C14_VolumesInFileOrder ==
    ( /\ OpenSucceededOn
      /\ result.input.fi.volumes_information_offset /= 0 )
      => /\ Len(volumes_array) = result.input.fi.number_of_volumes
         /\ \A i \in 1..Len(volumes_array) :
               /\ volumes_array[i].creation_time = result.input.volumes[i].creation_time
               /\ volumes_array[i].serial_number = result.input.volumes[i].serial_number

\* C15: a successful open of the subject leaves on the file what the first
\* successful open of the same bytes left, whatever was called in between
C15_OpensOfSameBytesAgree ==
    ( /\ OpenSucceededOn
      /\ subject = Ptr(result.input)
      /\ first_parse /= NULL )
      => Model(io_handle, prefetch_hash, filename_strings, volumes_array) = Deref(first_parse)

\* a call of the accessor that the result of the step names
AccessorCall ==
    CASE result'.function = "libscca_file_get_format_version" ->
             libscca_file_get_format_version
      [] result'.function = "libscca_file_get_prefetch_hash" ->
             libscca_file_get_prefetch_hash
      [] result'.function = "libscca_file_get_number_of_filenames" ->
             libscca_file_get_number_of_filenames
      [] result'.function = "libscca_file_get_utf8_filename_size" ->
             libscca_file_get_utf8_filename_size
      [] result'.function = "libscca_file_get_utf8_filename" ->
             libscca_file_get_utf8_filename
      [] result'.function = "libscca_file_get_utf16_filename_size" ->
             libscca_file_get_utf16_filename_size
      [] result'.function = "libscca_file_get_utf16_filename" ->
             libscca_file_get_utf16_filename
      [] result'.function = "libscca_file_get_number_of_volumes" ->
             libscca_file_get_number_of_volumes
      [] result'.function = "libscca_file_get_volume_information" ->
             libscca_file_get_volume_information
      [] OTHER -> FALSE

\* the fields of libscca_internal_file_t
FileState ==
    << io_handle, prefetch_hash, file_information, filename_strings, volumes_array,
       file_io_handle, file_io_handle_created_in_library,
       file_io_handle_opened_in_library >>

\* C16: a call of an accessor, whether it succeeds or fails, leaves every
\* field of the file as it was
C16_AccessorsLeaveFileUnchanged == [][ AccessorCall => UNCHANGED FileState ]_vars

\* an accessor has handed out a volume of an open file
C16_Witness ==
    /\ RetrievedBy("libscca_file_get_volume_information")
    /\ result.value = 1
    /\ result.index = 1
    /\ Len(volumes_array) = 2
    /\ result.output = Ptr(volumes_array[2])
    /\ io_handle.format_version = 23

\* the number of filenames of the file: none without filename strings
FilenamesCount == IF filename_strings = NULL THEN 0 ELSE Len(Deref(filename_strings))

InRange(index, count) == 0 <= index /\ index < count

\* C17: on an open file, the volume accessor and the filename size accessors
\* succeed exactly for the indexes from 0 up to the count; the filename
\* accessors fail for every other index, and for an index in that range
\* they succeed unless the string of the caller is too small
C17_IndexedAccessors ==
    /\ RetrievedBy("libscca_file_get_volume_information")
         => /\ result.value \in { 1, -1 }
            /\ result.value = 1 <=> InRange(result.index, Len(volumes_array))
    /\ \A function \in { "libscca_file_get_utf8_filename_size",
                          "libscca_file_get_utf16_filename_size" } :
         RetrievedBy(function)
           => /\ result.value \in { 1, -1 }
              /\ result.value = 1 <=> InRange(result.index, FilenamesCount)
    /\ \A function \in { "libscca_file_get_utf8_filename",
                          "libscca_file_get_utf16_filename" } :
         RetrievedBy(function)
           => /\ result.value \in { 1, -1 }
              /\ ~ InRange(result.index, FilenamesCount) => result.value = -1
              /\ InRange(result.index, FilenamesCount)
                   => result.value = 1 \/ result.cause = "string too small"

\* the last filename of two has been retrieved
C17_Witness ==
    /\ RetrievedBy("libscca_file_get_utf8_filename")
    /\ FilenamesCount = 2
    /\ result.index = 1
    /\ result.value = 1
    /\ result.error = NoError
    /\ result.output = Ptr(Deref(filename_strings)[2])

\* the records of the input lie inside the volumes information that is read
RecordsInBuffer(input) ==
    input.fi.number_of_volumes * SizeofVolumeInformation(VersionOf(input))
      <= input.fi.volumes_information_size

\* C18: after a successful open, of every volume record with file references
\* inside the volumes information the references 1 to
\* number_of_file_references - 1 have been read, each at
\* file_references_offset + 8 + 8 * index, and no reference after them
C18_FileReferencesDecoded ==
    ( /\ OpenSucceededOn
      /\ result.input.fi.volumes_information_offset /= 0
      /\ RecordsInBuffer(result.input) )
      => \A i \in 1..result.input.fi.number_of_volumes :
           LET record == result.input.volumes[i]
           IN  ( /\ record.file_references_offset /= 0
                 /\ record.file_references_offset + record.file_references_size
                      <= result.input.fi.volumes_information_size )
                 => /\ \A k \in 1..(record.number_of_file_references - 1) :
                         FileReference(record.file_references_offset, k) \in accesses
                    /\ FileReference(record.file_references_offset,
                                     record.number_of_file_references) \notin accesses

\* the directory strings of the record parse to a number of strings that is
\* not the record's number_of_directory_strings
DirectoryStringsMiscounted(record) ==
    /\ record.directory_strings_array_offset /= 0
    /\ record.strings.valid
    /\ Len(record.strings.entries) /= record.number_of_directory_strings

\* C19: after a successful open of a file with a volume record whose
\* directory strings are miscounted, an InconsistentCounts warning is recorded
C19_MiscountReported ==
    ( /\ OpenSucceededOn
      /\ result.input.fi.volumes_information_offset /= 0
      /\ RecordsInBuffer(result.input)
      /\ \E i \in 1..result.input.fi.number_of_volumes :
           /\ DirectoryStringsMiscounted(result.input.volumes[i])
           /\ result.input.volumes[i].directory_strings_array_offset
                < result.input.fi.volumes_information_size )
      => "InconsistentCounts" \in warnings

\* the decoders, in the order of their calls in libscca_file_open_read
DecoderOrder ==
    << "libscca_io_handle_read_file_header",
       "libscca_file_information_read",
       "libscca_io_handle_read_metrics_array",
       "libscca_io_handle_read_trace_chain_array",
       "libscca_io_handle_read_filename_strings",
       "libscca_io_handle_read_volumes_information" >>

\* the step of the open in which each decoder is called
DecoderStep ==
    [ libscca_io_handle_read_file_header         |-> "read_file_header",
      libscca_file_information_read              |-> "file_information",
      libscca_io_handle_read_metrics_array       |-> "metrics_array",
      libscca_io_handle_read_trace_chain_array   |-> "trace_chain_array",
      libscca_io_handle_read_filename_strings    |-> "filename_strings",
      libscca_io_handle_read_volumes_information |-> "volumes_information" ]

\* the offset at which the input has what the decoder decodes: 0 for none
SectionOffset(input, decoder) ==
    CASE decoder = "libscca_io_handle_read_metrics_array" ->
             input.fi.metrics_array_offset
      [] decoder = "libscca_io_handle_read_trace_chain_array" ->
             input.fi.trace_chain_array_offset
      [] decoder = "libscca_io_handle_read_filename_strings" ->
             input.fi.filename_strings_offset
      [] decoder = "libscca_io_handle_read_volumes_information" ->
             input.fi.volumes_information_offset
      [] OTHER -> FileInformationOffset

\* the decoders of what the input has, in order
DecodersOf(input) ==
    LET present(decoder) == SectionOffset(input, decoder) /= 0
    IN  SelectSeq(DecoderOrder, present)

InvokedDecoders == [ i \in 1..Len(invoked) |-> invoked[i].decoder ]

\* C20: a successful open has invoked the decoder of the header, of the file
\* information and of every section the file has, in the order header, file
\* information, metrics array, trace chain array, filename strings, volumes
\* information; a failed open has invoked nothing after the decoder that failed
C20_DecodersInOrder ==
    /\ OpenSucceededOn => InvokedDecoders = DecodersOf(result.input)
    /\ ( OpenFailedOn /\ result.step \in DecoderSteps )
         => /\ Len(invoked) > 0
            /\ DecoderStep[invoked[Len(invoked)].decoder] = result.step

\* the record size that the format has for the version
RecordSize(version) == IF version = 17 THEN 104 ELSE 96

\* the fields of record i of the volumes information, as a range of the buffer
RecordAt(input, i) ==
    << i * RecordSize(VersionOf(input)),
       i * RecordSize(VersionOf(input)) + VolumeInformationFieldsSize >>

Half32(value) ==
    IF value >= 0 THEN value \div 2
    ELSE ( ( ( value + 2147483647 ) + 1 ) \div 2 ) + 1073741824

\* the number of bytes is twice the number of characters, both 32-bit values
TwiceAsManyBytes(bytes, characters) ==
    /\ bytes % 2 = 0
    /\ Half32(bytes) = characters

\* C22: after a successful open, a volume whose record has a device path
\* offset and a number of characters that are not 0 has a device path of
\* twice as many bytes as the record has characters, read at the offset;
\* a volume whose record has 0 for either has no device path
C22_DevicePathSize ==
    ( /\ OpenSucceededOn
      /\ result.input.fi.volumes_information_offset /= 0
      /\ RecordsInBuffer(result.input) )
      => \A i \in 1..Len(volumes_array) :
           LET record == result.input.volumes[i]
               volume == volumes_array[i]
           IN  IF record.device_path_offset /= 0
                  /\ record.device_path_number_of_characters /= 0
               THEN /\ volume.device_path /= NULL
                    /\ TwiceAsManyBytes(Deref(volume.device_path),
                                        record.device_path_number_of_characters)
                    /\ << record.device_path_offset,
                          record.device_path_offset + Deref(volume.device_path) >>
                         \in accesses
               ELSE volume.device_path = NULL

\* C23: after a successful open, of every volume record with a directory
\* strings array offset that is not 0 the bytes from that offset to the end
\* of the volumes information have been parsed: the offset is not after the
\* end, so that their number is from 0 to volumes_information_size
C23_DirectoryStringsRegion ==
    ( /\ OpenSucceededOn
      /\ result.input.fi.volumes_information_offset /= 0
      /\ RecordsInBuffer(result.input) )
      => \A i \in 1..result.input.fi.number_of_volumes :
           LET record == result.input.volumes[i]
               volumes_information_size == result.input.fi.volumes_information_size
           IN  record.directory_strings_array_offset /= 0
                 => /\ record.directory_strings_array_offset <= volumes_information_size
                    /\ << record.directory_strings_array_offset,
                          volumes_information_size >> \in accesses

\* the number of bytes of the metrics array of the input
MetricsArraySize(input) ==
    input.fi.number_of_metrics_entries * ( IF VersionOf(input) = 17 THEN 20 ELSE 32 )

\* the open has returned an error from the step
FailedIn(step) == OpenFailedOn /\ result.step = step

\* C24: an open that has invoked the metrics decoder has failed in it exactly
\* if the file ends before the number_of_metrics_entries entries, of 20 bytes
\* for version 17 and of 32 bytes for the other versions, that start at
\* metrics_array_offset; with no entries it has not failed in it
C24_MetricsArrayRead ==
    ( /\ OpenReturned
      /\ "libscca_io_handle_read_metrics_array" \in Decoders )
      => ( FailedIn("metrics_array")
             <=> /\ MetricsArraySize(result.input) > 0
                 /\ result.input.fi.metrics_array_offset + MetricsArraySize(result.input)
                      > result.input.size )

\* the trace chain decoder of the open that is in progress or was the last
\* has returned 1
TraceChainWalked ==
    /\ pc /= "idle" \/ OpenReturned
    /\ Len(invoked) > 0
    /\ \E i \in 1..Len(invoked) : invoked[i].decoder = "libscca_io_handle_read_trace_chain_array"
    /\ ~ FailedIn("trace_chain_array")

\* the entries that a walk in file order visits: entry i at byte 12 * i
EntriesInFileOrder(number_of_entries) == [ i \in 1..number_of_entries |-> 12 * ( i - 1 ) ]

\* C25: the trace chain decoder that returns 1 has visited exactly
\* number_of_entries entries in file order, entry i at byte 12 * i of the array
\* data, whatever the next_table_index values of the entries are
C25_TraceChainWalk ==
    TraceChainWalked
    => visited = EntriesInFileOrder(
                     result.input.fi.number_of_trace_chain_array_entries)

\* a file whose first entry has the terminal 0xffffffff has been walked to its
\* second entry
C25_Witness ==
    /\ TraceChainWalked
    /\ result.input.trace_chain = << -1, 0 >>
    /\ visited = << 0, 12 >>

\* the decoders of libscca_io_handle.c that read a section into a buffer
SectionDecoders ==
    { "libscca_io_handle_read_metrics_array",
      "libscca_io_handle_read_trace_chain_array",
      "libscca_io_handle_read_filename_strings",
      "libscca_io_handle_read_volumes_information" }

\* the calls of section decoders that the last open made and that have
\* returned: all but the one in which the process ended
ReturnedSectionCalls ==
    { i \in 1..Len(invoked) :
        /\ invoked[i].decoder \in SectionDecoders
        /\ ~ ( pc = "crashed" /\ i = Len(invoked) ) }

\* C26: a section decoder that has returned has allocated at most one section
\* buffer and has freed it exactly as often as it allocated it: once on the
\* success path and on every error path after the allocation, never where the
\* allocation gave no buffer; every section decoder of a successful open has
\* allocated one buffer
C26_SectionBufferReleased ==
    \A i \in ReturnedSectionCalls :
        /\ invoked[i].buffer.allocated <= 1
        /\ invoked[i].buffer.freed = invoked[i].buffer.allocated
        /\ OpenSucceededOn => invoked[i].buffer.allocated = 1

\* the filename strings decoder has failed in the read that follows the
\* allocation, and has freed the buffer
C26_Witness ==
    /\ FailedIn("filename_strings")
    /\ result.error = "unable to read filename strings data"
    /\ Len(invoked) \in ReturnedSectionCalls
    /\ invoked[Len(invoked)].buffer = [ allocated |-> 1, freed |-> 1 ]

\* a step that is a call of libscca_file_open or of
\* libscca_file_open_file_io_handle on a file object that no open is reading
OpenCall ==
    /\ pc = "idle"
    /\ result' /= result
    /\ result'.function \in OpenFunctions

\* what an open has set in the file object: the byte source, who owns it and
\* what was parsed from it
OpenedState ==
    << file_io_handle, file_io_handle_created_in_library,
       file_io_handle_opened_in_library, bfio, io_handle, prefetch_hash,
       file_information, filename_strings, volumes_array >>

\* C27: a call of libscca_file_open or of libscca_file_open_file_io_handle on a
\* file object whose file_io_handle is set returns -1 and leaves the
\* file_io_handle, the two ownership flags, the byte source and the parsed
\* model as they were
C27_OpenOfOpenFileRejected ==
    [][ ( file_io_handle /= NULL /\ OpenCall )
        => /\ result'.returned
           /\ result'.value = -1
           /\ UNCHANGED OpenedState ]_vars

\* libscca_file_open_file_io_handle was rejected on a file object that holds
\* an open byte source and volumes parsed from it
C27_Witness ==
    /\ pc = "idle"
    /\ result.function = "libscca_file_open_file_io_handle"
    /\ result.value = -1
    /\ result.error = "file IO handle already set"
    /\ file_io_handle /= NULL
    /\ bfio.is_open
    /\ Len(volumes_array) > 0

\* a step that is a call of libscca_file_close, or of libscca_file_free, on a
\* file object that is open
CloseCall ==
    /\ pc = "idle"
    /\ file_io_handle /= NULL
    /\ result' /= result
    /\ result'.function \in { "libscca_file_close", "libscca_file_free" }

\* C28: a close, and a free of an open file, closes the byte source only if
\* file_io_handle_opened_in_library is set and frees it only if
\* file_io_handle_created_in_library is set, and leaves both flags 0 and
\* file_io_handle NULL; after any step of any sequence of opens, closes and a
\* free, a byte source that the caller passed open to
\* libscca_file_open_file_io_handle is open and is not freed
C28_ByteSourceOwnership ==
    [][ /\ CloseCall
           => /\ ( bfio.is_open /\ ~ bfio'.is_open )
                    => file_io_handle_opened_in_library /= 0
              /\ bfio'.freed => file_io_handle_created_in_library /= 0
              /\ file_io_handle_opened_in_library' = 0
              /\ file_io_handle_created_in_library' = 0
              /\ file_io_handle' = NULL
        /\ bfio'.caller_opened => ( bfio'.is_open /\ ~ bfio'.freed ) ]_vars

\* a file that was opened from a byte source the caller had opened has been
\* closed, and the byte source is still open
C28_Witness ==
    /\ result.function = "libscca_file_close"
    /\ result.value = 0
    /\ file_io_handle = NULL
    /\ bfio.caller_opened
    /\ bfio.is_open
    /\ ~ bfio.freed

\* libscca_file_open_file_io_handle has returned -1 from on_error, which is
\* where it fails once the byte source is attached
FailedAfterAttach ==
    /\ pc = "idle"
    /\ result.function = "libscca_file_open_file_io_handle"
    /\ result.returned
    /\ result.value = -1
    /\ result.step /= "arguments"

\* what libscca_file_open_file_io_handle and libscca_file_open_read test of the
\* file object before they read: an open finds none of them set
OpenAccepted ==
    /\ file_io_handle = NULL
    /\ file_information = NULL
    /\ filename_strings = NULL

\* C29: after libscca_file_open_file_io_handle failed with the byte source
\* attached, the byte source is open exactly if the caller had passed it
\* open, file_io_handle_opened_in_library is 0, and the file object is as an
\* open accepts it
C29_ByteSourceRestored ==
    FailedAfterAttach
    => /\ bfio.is_open = bfio.caller_opened
       /\ ~ bfio.freed
       /\ file_io_handle_opened_in_library = 0
       /\ OpenAccepted

\* the open of a byte source that the library had opened failed in the
\* filename strings, and the byte source is closed again
C29_Witness ==
    /\ FailedAfterAttach
    /\ result.step = "filename_strings"
    /\ ~ bfio.caller_opened
    /\ ~ bfio.is_open
    /\ file_io_handle_opened_in_library = 0

\* the open failed in a decoder that follows the header decoder
FailedAfterHeader ==
    /\ OpenFailedOn
    /\ result.step \in DecoderSteps \ { "read_file_header" }

\* an accessor of a scalar has returned a value from a file object that is not open
ScalarRetrieved ==
    /\ pc = "idle"
    /\ file_io_handle = NULL
    /\ result.function \in { "libscca_file_get_format_version",
                             "libscca_file_get_prefetch_hash" }
    /\ result.value = 1

\* C30: after an open that failed at a step after the header was decoded,
\* the format version and the prefetch hash are what they were before that
\* open, and so are what libscca_file_get_format_version and
\* libscca_file_get_prefetch_hash return.  An open is accepted on a file
\* object that is fresh, closed or left by a failed open only, so that the
\* values before it are 0
C30_FailedOpenLeavesScalars ==
    /\ FailedAfterHeader => ( io_handle.format_version = 0 /\ prefetch_hash = 0 )
    /\ ScalarRetrieved => Deref(result.output) = 0

============================================================================
